---- MODULE Spec2Model ----
(***************************************************************************)
(* State-machine model of scripts/fiddle.py: the stress-test worker that   *)
(* sends random tile writes over a websocket, marks them acked on a text   *)
(* response and checks them against a binary tile snapshot.                *)
(*                                                                         *)
(* Python objects are modelled as a heap: the workload msg_dict is a list  *)
(* of (send, to_check) pairs whose to_check dictionaries are the objects   *)
(* that worker() appends to its check list, so check[w] holds references   *)
(* (indices into msg_dict), not copies.                                    *)
(***************************************************************************)
EXTENDS Integers, Sequences, FiniteSets, TLC

\* ---- program constants (fiddle.py:9-13) ----
NUM_WORKERS == 2
DURATION == 3
TILE_X == 1000

\* ---- bounds of the model ----
\* number of pairs random_msg generates (10000 in the source)
NumMsgs == 2
\* longest check list a worker is followed to
MaxCheck == 2
\* the same two bounds where three distinct dictionaries are needed
NumDupMsgs == 3
MaxDupCheck == 3

\* longest check list followed on the workload that holds every triple once
MaxAllCheck == 3

\* longest check list followed when two workers share a workload
MaxSharedCheck == 1

\* ---- input domains ----
\* cells the server has painted, a subset of (0..999) x (0..999)
Cells == {<<1, 0>>, <<0, 1>>}
\* colours in use, a subset of 0..10000
Colors == {1, 256}
\* values random.randint(a, b) can return
randint(a, b) == a .. b
\* (x, y, color) triples tried as draws of the generator
Samples ==
    { <<1, 0, 1>>, <<1, 0, 256>>, <<0, 1, 1>>, <<1000, 0, 1>>, <<0, 1000, 1>> }
\* the (x, y, color) triples the generator draws from: lines 88-90
Triples ==
    { t \in Samples : /\ t[1] \in randint(0, 999)
                      /\ t[2] \in randint(0, 999)
                      /\ t[3] \in randint(0, 10000) }

Workers == 0 .. (NUM_WORKERS - 1)

\* the clock is followed until the deadline
MaxClock == DURATION

VARIABLES
    msg_dict,    \* the global workload: sequence of [send, to_check]
    main_pc,     \* position of main(): "start", "generated", "running", "done"
    exit_code,   \* process exit status: -1 while running, 0 normal, 1 traceback
    now,         \* datetime.datetime.now(), in seconds
    pc,          \* position of each worker coroutine: the await it is
                 \* suspended in, or "idle", "loop" (line 37), "done"
    start,       \* worker local: start
    connection,  \* worker local: "none", "open", "closed" (by close()), "lost"
    check,       \* worker local: list of references to to_check dictionaries
    pick,        \* worker local: index of the (send, to_check) pair just picked
    recv_data,   \* worker local: the last value returned by connection.recv()
    retval,      \* how worker() ended: "pending", "None" (return) or "raise"
    ended,       \* which exit was taken: "", "timeout", "mismatch", "error"
    checked,     \* history: the check list, by value, as the snapshot found it
    limit,       \* the length of check list this run is followed to
    outstanding, \* per connection: requests sent whose response was not received
    compared     \* history: indices of checked for which lines 62-66 ran

vars == <<msg_dict, main_pc, exit_code, now, pc, start, connection, check,
          pick, recv_data, retval, ended, checked, limit, outstanding,
          compared>>

\* ---- pure helpers -------------------------------------------------------

\* int.to_bytes(4, byteorder="little")
to_bytes(color) ==
    << color % 256, (color \div 256) % 256,
       (color \div 65536) % 256, (color \div 16777216) % 256 >>

\* json.dumps({"x": x, "y": y, "color": color}): keys in insertion order
json_dumps(x, y, color) == << "x", x, "y", y, "color", color >>

\* numpy astype(np.uint8) of one element
astype_uint8(v) == v % 256

\* A decoded snapshot is [X, Y, width, height, grid]: the region origin, its
\* extent and the colours of the painted cells of the server's grid; every
\* other cell holds colour 0.  TilesAsNumpy() is the row-major byte buffer of
\* the region, 4 little-endian bytes per cell.
TilesLen(tile) == tile.width * tile.height * 4

CellColor(tile, k) ==
    LET gx == tile.X + (k % tile.width)
        gy == tile.Y + (k \div tile.width)
    IN  IF <<gx, gy>> \in DOMAIN tile.grid THEN tile.grid[<<gx, gy>>] ELSE 0

\* tile_map[i], for 0 <= i < TilesLen(tile)
TilesAsNumpy(tile, i) == to_bytes(CellColor(tile, i \div 4))[(i % 4) + 1]

\* tile_map[offset:offset + 4] (a slice: shorter or empty past the end)
TileSlice(tile, offset) ==
    LET n == TilesLen(tile)
        hi == IF offset + 4 < n THEN offset + 4 ELSE n
    IN  [j \in 1 .. (IF hi > offset THEN hi - offset ELSE 0) |->
            TilesAsNumpy(tile, offset + j - 1)]

\* buffer cell indices of the painted cells that lie inside the region
PaintedCells(tile) ==
    { (c[1] - tile.X) + (c[2] - tile.Y) * tile.width :
        c \in { d \in DOMAIN tile.grid :
                  /\ tile.X <= d[1] /\ d[1] < tile.X + tile.width
                  /\ tile.Y <= d[2] /\ d[2] < tile.Y + tile.height } }

\* Start positions where bytes.find can first succeed.  A window that touches
\* no painted cell is all zero bytes, and then either position 0 matches or
\* the byte just before the window belongs to a painted cell; so the first
\* match of any 4-byte sequence is 0 or within 3 bytes before / 4 bytes after
\* the first byte of a painted cell.
FindCandidates(tile) ==
    { i \in {0} \cup { 4 * k + d : k \in PaintedCells(tile), d \in -3 .. 4 } :
        0 <= i /\ i + 4 <= TilesLen(tile) }

MatchAt(tile, sequence, i) ==
    \A j \in 1 .. 4 : astype_uint8(TilesAsNumpy(tile, i + j - 1)) = sequence[j]

\* find_byte_sequence: index of the first occurrence, -1 when there is none
find_byte_sequence(tile, sequence) ==
    LET hits == { i \in FindCandidates(tile) : MatchAt(tile, sequence, i) }
    IN  IF hits = {} THEN -1
        ELSE CHOOSE i \in hits : \A j \in hits : i <= j

\* ---- the check loop of worker (lines 58-74) -----------------------------

\* offset in bytes of a to_check dictionary
Offset(check_tile) == (check_tile.x + (check_tile.y * TILE_X)) * 4

\* the check loop without its line 59-60: no entry is skipped
SkipNothing(check_tile) == FALSE

\* line 59: entries still unacked are skipped
Skipped(check_tile) == check_tile.acked = "False"

\* line 66: the test that declares "Data mismatch"
Mismatch(tile, check_tile) ==
    find_byte_sequence(tile, to_bytes(check_tile.color)) # Offset(check_tile)

\* the check list by value: the dictionaries the references point to
Deref(w) == [i \in 1 .. Len(check[w]) |-> msg_dict[check[w][i]].to_check]

\* the for loop run to its end before it returns: index of the last entry
\* that fails the test, 0 when none does
LastMismatch(tile, pending) ==
    LET bad == { i \in 1 .. Len(pending) :
                    ~Skipped(pending[i]) /\ Mismatch(tile, pending[i]) }
    IN  IF bad = {} THEN 0 ELSE CHOOSE i \in bad : \A j \in bad : j <= i

\* index of the first entry on which the for loop returns, 0 when it completes
FirstMismatch(tile, pending) ==
    LET bad == { i \in 1 .. Len(pending) :
                    ~Skipped(pending[i]) /\ Mismatch(tile, pending[i]) }
    IN  IF bad = {} THEN 0 ELSE CHOOSE i \in bad : \A j \in bad : i <= j

\* indices of the entries the for loop takes past line 60 before it returns
\* or completes
Compared(tile, pending) ==
    LET stop == IF FirstMismatch(tile, pending) = 0 THEN Len(pending)
                ELSE FirstMismatch(tile, pending)
    IN  { i \in 1 .. stop : ~Skipped(pending[i]) }

\* ---- responses a connection can deliver ---------------------------------

NoData == [type |-> "none", ok |-> FALSE, X |-> 0, Y |-> 0, width |-> 0,
           height |-> 0, grid |-> <<>>]
TextData == [NoData EXCEPT !.type = "str"]
OtherData == [NoData EXCEPT !.type = "other"]
MalformedBytes == [NoData EXCEPT !.type = "bytes"]

\* regions a snapshot may cover: the whole grid, the single cell (1, 0), and
\* the first column of the first two rows
Regions ==
    { [X |-> 0, Y |-> 0, width |-> TILE_X, height |-> TILE_X],
      [X |-> 1, Y |-> 0, width |-> 1, height |-> 1],
      [X |-> 0, Y |-> 0, width |-> 1, height |-> 2] }

Snapshots ==
    { [type |-> "bytes", ok |-> TRUE, X |-> r.X, Y |-> r.Y, width |-> r.width,
       height |-> r.height, grid |-> g] :
        r \in Regions, g \in [Cells -> Colors \cup {0}] }

\* ---- initial state ------------------------------------------------------

Init ==
    /\ msg_dict = <<>>
    /\ main_pc = "start"
    /\ exit_code = -1
    /\ now = 0
    /\ pc = [w \in Workers |-> "idle"]
    /\ start = [w \in Workers |-> 0]
    /\ connection = [w \in Workers |-> "none"]
    /\ check = [w \in Workers |-> <<>>]
    /\ pick = [w \in Workers |-> 0]
    /\ recv_data = [w \in Workers |-> NoData]
    /\ retval = [w \in Workers |-> "pending"]
    /\ ended = [w \in Workers |-> ""]
    /\ checked = [w \in Workers |-> <<>>]
    /\ outstanding = [w \in Workers |-> 0]
    /\ compared = [w \in Workers |-> {}]
    /\ limit = MaxCheck

\* ---- generator and driver -----------------------------------------------

\* the pair with x and y exchanged in the serialized request
PairSwapped(x, y, color) ==
    [send |-> json_dumps(y, x, color),
     to_check |-> [x |-> x, y |-> y, color |-> color, acked |-> "absent"]]

\* one (send, to_check) pair; the dictionary has no "acked" key yet
Pair(x, y, color) ==
    [send |-> json_dumps(x, y, color),
     to_check |-> [x |-> x, y |-> y, color |-> color, acked |-> "absent"]]

\* random_msg(): called by main, fills msg_dict
random_msg ==
    /\ main_pc = "start"
    /\ \E f \in [1 .. NumMsgs -> Triples] :
          msg_dict' = [i \in 1 .. NumMsgs |-> Pair(f[i][1], f[i][2], f[i][3])]
    /\ main_pc' = "generated"
    /\ UNCHANGED <<exit_code, now, pc, start, connection, check, pick,
                   recv_data, retval, ended, checked, limit,
                   outstanding, compared>>

\* worker ids main passes to coroutine(): the single call coroutine(0, msg_dict)
Spawned == {0}

\* main(): coroutine(0, msg_dict) enters asyncio.run(worker(0, msg_dict));
\* worker runs line 31 and reaches the await of line 33
coroutine ==
    /\ main_pc = "generated"
    /\ main_pc' = "running"
    /\ pc' = [w \in Workers |-> IF w \in Spawned THEN "connect" ELSE pc[w]]
    /\ start' = [w \in Workers |-> IF w \in Spawned THEN now ELSE start[w]]
    /\ UNCHANGED <<msg_dict, exit_code, now, connection, check, pick,
                   recv_data, retval, ended, checked, limit,
                   outstanding, compared>>

\* asyncio.run returns (or re-raises) when the worker is done; main returns
\* and the interpreter exits: status 0, or 1 after an uncaught exception
main_exit ==
    /\ main_pc = "running"
    /\ \A w \in Spawned : pc[w] = "done"
    /\ main_pc' = "done"
    /\ exit_code' = IF \E w \in Spawned : retval[w] = "raise" THEN 1 ELSE 0
    /\ UNCHANGED <<msg_dict, now, pc, start, connection, check, pick,
                   recv_data, retval, ended, checked, limit,
                   outstanding, compared>>

\* ---- worker -------------------------------------------------------------

\* an exception leaves worker(): nothing is closed, nothing is returned
Raise(w) ==
    /\ pc' = [pc EXCEPT ![w] = "done"]
    /\ retval' = [retval EXCEPT ![w] = "raise"]
    /\ ended' = [ended EXCEPT ![w] = "error"]

\* positions of a worker suspended in await connection.close(): line 38 and
\* line 72
Closing == {"closing_timeout", "closing_mismatch"}

\* the worker reaches await connection.close() and is suspended there: the
\* connection is still open and nothing is returned yet
AwaitClose(w, why) ==
    /\ pc' = [pc EXCEPT ![w] = IF why = "timeout" THEN "closing_timeout"
                                                  ELSE "closing_mismatch"]
    /\ UNCHANGED <<connection, retval, ended>>

\* connection.close() completes and the return after it runs
CloseAndReturn(w, why) ==
    /\ connection' = [connection EXCEPT ![w] = "closed"]
    /\ pc' = [pc EXCEPT ![w] = "done"]
    /\ retval' = [retval EXCEPT ![w] = "None"]
    /\ ended' = [ended EXCEPT ![w] = why]

\* line 33 succeeds; line 35
connect_ok(w) ==
    /\ pc[w] = "connect"
    /\ connection' = [connection EXCEPT ![w] = "open"]
    /\ check' = [check EXCEPT ![w] = <<>>]
    /\ pc' = [pc EXCEPT ![w] = "loop"]
    /\ UNCHANGED <<msg_dict, main_pc, exit_code, now, start, pick, recv_data,
                   retval, ended, checked, limit,
                   outstanding, compared>>

\* line 33 raises (handshake failure)
connect_fail(w) ==
    /\ pc[w] = "connect"
    /\ Raise(w)
    /\ UNCHANGED <<msg_dict, main_pc, exit_code, now, start, connection, check,
                   pick, recv_data, checked, limit,
                   outstanding, compared>>

\* line 37
Elapsed(w) == now - start[w]
\* the test of line 37 with the DURATION side left in seconds
TimedOutSeconds(w) == Elapsed(w) * 1000 >= DURATION
TimedOut(w) == Elapsed(w) * 1000 >= DURATION * 1000

\* lines 37-38, up to the await of line 38
loop_timeout(w) ==
    /\ pc[w] = "loop"
    /\ TimedOut(w)
    /\ AwaitClose(w, "timeout")
    /\ UNCHANGED <<msg_dict, main_pc, exit_code, now, start, check, pick,
                   recv_data, checked, limit,
                   outstanding, compared>>

\* lines 40-42, up to the await of line 42: the worker is suspended in send
loop_send(w) ==
    /\ pc[w] = "loop"
    /\ ~TimedOut(w)
    /\ Len(check[w]) < limit
    /\ \E i \in 1 .. Len(msg_dict) : pick' = [pick EXCEPT ![w] = i]
    /\ pc' = [pc EXCEPT ![w] = "sent"]
    /\ outstanding' = [outstanding EXCEPT ![w] = @ + 1]
    /\ UNCHANGED <<msg_dict, main_pc, exit_code, now, start, connection, check,
                   recv_data, retval, ended, checked, limit,
                   compared>>

\* the send of line 42 raises ConnectionClosed while the worker is suspended
\* in it: the request did not go out, the transport is gone, the worker never
\* calls close
loop_send_fail(w) ==
    /\ pc[w] = "sent"
    /\ connection' = [connection EXCEPT ![w] = "lost"]
    /\ Raise(w)
    /\ outstanding' = [outstanding EXCEPT ![w] = @ - 1]
    /\ UNCHANGED <<msg_dict, main_pc, exit_code, now, start, check, pick,
                   recv_data, checked, limit, compared>>

\* lines 43-44 followed by a jump back to line 37 instead of the await of line 45
append_check_pipelined(w) ==
    /\ pc[w] = "sent"
    /\ check' = [check EXCEPT ![w] = Append(@, pick[w])]
    /\ msg_dict' = [msg_dict EXCEPT ![pick[w]].to_check.acked = "False"]
    /\ pick' = [pick EXCEPT ![w] = 0]
    /\ pc' = [pc EXCEPT ![w] = "loop"]
    /\ UNCHANGED <<main_pc, exit_code, now, start, connection, recv_data,
                   retval, ended, checked, limit,
                   outstanding, compared>>

\* lines 43-44 with line 44 writing True
append_check_acked(w) ==
    /\ pc[w] = "sent"
    /\ check' = [check EXCEPT ![w] = Append(@, pick[w])]
    /\ msg_dict' = [msg_dict EXCEPT ![pick[w]].to_check.acked = "True"]
    /\ pick' = [pick EXCEPT ![w] = 0]
    /\ pc' = [pc EXCEPT ![w] = "recv"]
    /\ UNCHANGED <<main_pc, exit_code, now, start, connection, recv_data,
                   retval, ended, checked, limit,
                   outstanding, compared>>

\* the send of line 42 returns; lines 43-44: the picked dictionary itself is
\* appended, then written (send and to_check are not read again before line
\* 40 reassigns them)
append_check(w) ==
    /\ pc[w] = "sent"
    /\ check' = [check EXCEPT ![w] = Append(@, pick[w])]
    /\ msg_dict' = [msg_dict EXCEPT ![pick[w]].to_check.acked = "False"]
    /\ pick' = [pick EXCEPT ![w] = 0]
    /\ pc' = [pc EXCEPT ![w] = "recv"]
    /\ UNCHANGED <<main_pc, exit_code, now, start, connection, recv_data,
                   retval, ended, checked, limit,
                   outstanding, compared>>

\* line 45 returns a str: lines 47-50, then on to line 78
recv_str(w) ==
    /\ pc[w] = "recv"
    /\ recv_data' = [recv_data EXCEPT ![w] = TextData]
    /\ checked' = [checked EXCEPT ![w] = <<>>]
    /\ msg_dict' = [msg_dict EXCEPT
                      ![check[w][Len(check[w])]].to_check.acked = "True"]
    /\ pc' = [pc EXCEPT ![w] = "sleep"]
    /\ outstanding' = [outstanding EXCEPT ![w] = @ - 1]
    /\ compared' = [compared EXCEPT ![w] = {}]
    /\ UNCHANGED <<main_pc, exit_code, now, start, connection, check, pick,
                   retval, ended, limit>>

\* line 45 returns bytes that decode: lines 51-74
recv_bytes(w) ==
    /\ pc[w] = "recv"
    /\ \E tile \in Snapshots :
          /\ recv_data' = [recv_data EXCEPT ![w] = tile]
          /\ checked' = [checked EXCEPT ![w] = Deref(w)]
          /\ compared' = [compared EXCEPT ![w] = Compared(tile, Deref(w))]
          /\ IF FirstMismatch(tile, Deref(w)) # 0
             THEN /\ AwaitClose(w, "mismatch")
                  /\ UNCHANGED check
             ELSE /\ check' = [check EXCEPT ![w] = <<>>]
                  /\ pc' = [pc EXCEPT ![w] = "sleep"]
                  /\ UNCHANGED <<connection, retval, ended>>
    /\ outstanding' = [outstanding EXCEPT ![w] = @ - 1]
    /\ UNCHANGED <<msg_dict, main_pc, exit_code, now, start, pick, limit>>

\* the close of line 38 or line 72 completes; line 39 or line 73 returns
close_return(w) ==
    /\ pc[w] \in Closing
    /\ CloseAndReturn(w, IF pc[w] = "closing_timeout" THEN "timeout"
                                                      ELSE "mismatch")
    /\ UNCHANGED <<msg_dict, main_pc, exit_code, now, start, check, pick,
                   recv_data, checked, limit, outstanding, compared>>

\* line 45 returns bytes that are no TileMapUpdate: lines 55-57 raise, the
\* connection stays as it is
recv_malformed(w) ==
    /\ pc[w] = "recv"
    /\ recv_data' = [recv_data EXCEPT ![w] = MalformedBytes]
    /\ checked' = [checked EXCEPT ![w] = <<>>]
    /\ Raise(w)
    /\ outstanding' = [outstanding EXCEPT ![w] = @ - 1]
    /\ compared' = [compared EXCEPT ![w] = {}]
    /\ UNCHANGED <<msg_dict, main_pc, exit_code, now, start, connection, check,
                   pick, limit>>

\* lines 75-76 followed by check = []
recv_other_clearing(w) ==
    /\ pc[w] = "recv"
    /\ recv_data' = [recv_data EXCEPT ![w] = OtherData]
    /\ checked' = [checked EXCEPT ![w] = <<>>]
    /\ check' = [check EXCEPT ![w] = <<>>]
    /\ pc' = [pc EXCEPT ![w] = "sleep"]
    /\ outstanding' = [outstanding EXCEPT ![w] = @ - 1]
    /\ compared' = [compared EXCEPT ![w] = {}]
    /\ UNCHANGED <<msg_dict, main_pc, exit_code, now, start, connection,
                   pick, retval, ended, limit>>

\* line 45 returns neither str nor bytes: lines 75-76
recv_other(w) ==
    /\ pc[w] = "recv"
    /\ recv_data' = [recv_data EXCEPT ![w] = OtherData]
    /\ checked' = [checked EXCEPT ![w] = <<>>]
    /\ pc' = [pc EXCEPT ![w] = "sleep"]
    /\ outstanding' = [outstanding EXCEPT ![w] = @ - 1]
    /\ compared' = [compared EXCEPT ![w] = {}]
    /\ UNCHANGED <<msg_dict, main_pc, exit_code, now, start, connection, check,
                   pick, retval, ended, limit>>

\* line 45 raises ConnectionClosed: the transport is gone, the worker never
\* calls close
recv_fail(w) ==
    /\ pc[w] = "recv"
    /\ connection' = [connection EXCEPT ![w] = "lost"]
    /\ Raise(w)
    /\ UNCHANGED <<msg_dict, main_pc, exit_code, now, start, check,
                   pick, recv_data, checked, limit,
                   outstanding, compared>>

\* line 78 (recv_data is not read again before line 45 reassigns it)
sleep(w) ==
    /\ pc[w] = "sleep"
    /\ pc' = [pc EXCEPT ![w] = "loop"]
    /\ recv_data' = [recv_data EXCEPT ![w] = NoData]
    /\ checked' = [checked EXCEPT ![w] = <<>>]
    /\ compared' = [compared EXCEPT ![w] = {}]
    /\ UNCHANGED <<msg_dict, main_pc, exit_code, now, start, connection, check,
                   pick, retval, ended, limit,
                   outstanding>>

\* the wall clock advances; only a running worker reads it
Tick ==
    /\ \E w \in Workers : pc[w] \notin {"idle", "done"}
    /\ now < MaxClock
    /\ now' = now + 1
    /\ UNCHANGED <<msg_dict, main_pc, exit_code, pc, start, connection, check,
                   pick, recv_data, retval, ended, checked, limit,
                   outstanding, compared>>

worker(w) ==
    \/ connect_ok(w)
    \/ connect_fail(w)
    \/ loop_timeout(w)
    \/ loop_send(w)
    \/ loop_send_fail(w)
    \/ append_check(w)
    \/ recv_str(w)
    \/ recv_bytes(w)
    \/ recv_malformed(w)
    \/ recv_other(w)
    \/ recv_fail(w)
    \/ sleep(w)
    \/ close_return(w)

Next ==
    \/ random_msg
    \/ coroutine
    \/ main_exit
    \/ \E w \in Workers : worker(w)
    \/ Tick

Spec == Init /\ [][Next]_vars

\* ---- two workers on one workload ---------------------------------------
\* worker(0, msg) and worker(1, msg) called with the same list msg, as the
\* signature of worker and NUM_WORKERS provide for: both coroutines are at
\* line 33 and interleave at their awaits.
InitShared ==
    /\ \E f \in [1 .. NumMsgs -> Triples] :
          msg_dict = [i \in 1 .. NumMsgs |-> Pair(f[i][1], f[i][2], f[i][3])]
    /\ main_pc = "running"
    /\ exit_code = -1
    /\ now = 0
    /\ pc = [w \in Workers |-> "connect"]
    /\ start = [w \in Workers |-> 0]
    /\ connection = [w \in Workers |-> "none"]
    /\ check = [w \in Workers |-> <<>>]
    /\ pick = [w \in Workers |-> 0]
    /\ recv_data = [w \in Workers |-> NoData]
    /\ retval = [w \in Workers |-> "pending"]
    /\ ended = [w \in Workers |-> ""]
    /\ checked = [w \in Workers |-> <<>>]
    /\ outstanding = [w \in Workers |-> 0]
    /\ compared = [w \in Workers |-> {}]
    /\ limit = MaxSharedCheck

NextShared ==
    \/ \E w \in Workers : worker(w)
    \/ Tick

SpecShared == InitShared /\ [][NextShared]_vars

\* ---- a workload of three pairs ----------------------------------------
\* main after random_msg returned a workload of NumDupMsgs pairs
InitDup ==
    /\ \E f \in [1 .. NumDupMsgs -> Triples] :
          msg_dict = [i \in 1 .. NumDupMsgs |-> Pair(f[i][1], f[i][2], f[i][3])]
    /\ main_pc = "generated"
    /\ exit_code = -1
    /\ now = 0
    /\ pc = [w \in Workers |-> "idle"]
    /\ start = [w \in Workers |-> 0]
    /\ connection = [w \in Workers |-> "none"]
    /\ check = [w \in Workers |-> <<>>]
    /\ pick = [w \in Workers |-> 0]
    /\ recv_data = [w \in Workers |-> NoData]
    /\ retval = [w \in Workers |-> "pending"]
    /\ ended = [w \in Workers |-> ""]
    /\ checked = [w \in Workers |-> <<>>]
    /\ outstanding = [w \in Workers |-> 0]
    /\ compared = [w \in Workers |-> {}]
    /\ limit = MaxDupCheck

NextDup ==
    \/ coroutine
    \/ main_exit
    \/ \E w \in Workers : worker(w)
    \/ Tick

SpecDup == InitDup /\ [][NextDup]_vars

\* ---- a workload without repeated values ---------------------------------
\* main after random_msg returned a workload that holds every triple once
EveryTriple ==
    CHOOSE f \in [1 .. Cardinality(Triples) -> Triples] :
        \A i, j \in DOMAIN f : f[i] = f[j] => i = j

InitAll ==
    /\ msg_dict = [i \in DOMAIN EveryTriple |->
                     Pair(EveryTriple[i][1], EveryTriple[i][2], EveryTriple[i][3])]
    /\ main_pc = "generated"
    /\ exit_code = -1
    /\ now = 0
    /\ pc = [w \in Workers |-> "idle"]
    /\ start = [w \in Workers |-> 0]
    /\ connection = [w \in Workers |-> "none"]
    /\ check = [w \in Workers |-> <<>>]
    /\ pick = [w \in Workers |-> 0]
    /\ recv_data = [w \in Workers |-> NoData]
    /\ retval = [w \in Workers |-> "pending"]
    /\ ended = [w \in Workers |-> ""]
    /\ checked = [w \in Workers |-> <<>>]
    /\ outstanding = [w \in Workers |-> 0]
    /\ compared = [w \in Workers |-> {}]
    /\ limit = MaxAllCheck

NextAll ==
    \/ coroutine
    \/ main_exit
    \/ \E w \in Workers : worker(w)
    \/ Tick

SpecAll == InitAll /\ [][NextAll]_vars

\* ---- properties --------------------------------------------------------

\* worker w has just run the check loop on a decoded snapshot: recv_data[w]
\* is that snapshot and checked[w] the check list the loop went over
JustChecked(w) == recv_data[w].type = "bytes" /\ recv_data[w].ok

\* the 4 bytes at the flat offset of the entry differ from its colour
DiffersAtOffset(tile, check_tile) ==
    TileSlice(tile, Offset(check_tile)) # to_bytes(check_tile.color)

\* the entry's cell lies inside the region the snapshot covers
InRegion(tile, check_tile) ==
    /\ tile.X <= check_tile.x /\ check_tile.x < tile.X + tile.width
    /\ tile.Y <= check_tile.y /\ check_tile.y < tile.Y + tile.height

\* byte offset of the entry's cell relative to the snapshot's origin
RegionOffset(tile, check_tile) ==
    ((check_tile.x - tile.X) + (check_tile.y - tile.Y) * tile.width) * 4

\* the snapshot covers the entry's cell and holds the entry's colour there
HoldsAtCell(tile, check_tile) ==
    /\ InRegion(tile, check_tile)
    /\ TileSlice(tile, RegionOffset(tile, check_tile))
          = to_bytes(check_tile.color)

\* the worker has taken the mismatch exit: it is suspended in the close of
\* line 72 or has returned at line 73
MismatchExit(w) == pc[w] = "closing_mismatch" \/ ended[w] = "mismatch"

\* the check list of w by value in the next state
DerefNext(w) == [i \in 1 .. Len(check'[w]) |-> msg_dict'[check'[w][i]].to_check]

\* C1: when a snapshot is checked, the worker ends by mismatch if and only if
\* some acked entry's 4 bytes at offset (x + y*TILE_X)*4 differ from its
\* colour in little-endian bytes; where the bytes sit elsewhere in the buffer
\* plays no part.
C1_OffsetLookupDecides ==
    \A w \in Workers :
        JustChecked(w) =>
            ( MismatchExit(w)
              <=> \E i \in 1 .. Len(checked[w]) :
                     /\ checked[w][i].acked = "True"
                     /\ DiffersAtOffset(recv_data[w], checked[w][i]) )

\* C2: when the run is over, a worker that ended by mismatch makes the exit
\* status a failure, status 0 means every worker ended by timeout, and a
\* worker that returned on mismatch returned something else than one that
\* returned on timeout.
C2_MismatchFailsRun ==
    /\ main_pc = "done" =>
          /\ (\E w \in Spawned : ended[w] = "mismatch") => exit_code # 0
          /\ exit_code = 0 => \A w \in Spawned : ended[w] = "timeout"
    /\ \A v, w \in Workers :
          (ended[v] = "mismatch" /\ ended[w] = "timeout")
              => retval[v] # retval[w]

\* C3: last write wins: when the checked list holds two acked writes to the
\* same cell with different colours, no other acked entry, and the snapshot
\* holds the later colour at that cell, the worker does not end by mismatch
\* and carries on to the pacing delay.
C3_LastWriteWins ==
    \A w \in Workers :
        \A i, j \in 1 .. Len(checked[w]) :
            ( /\ JustChecked(w)
              /\ i < j
              /\ checked[w][i].acked = "True" /\ checked[w][j].acked = "True"
              /\ \A k \in 1 .. Len(checked[w]) :
                    checked[w][k].acked = "True" => k \in {i, j}
              /\ checked[w][i].x = checked[w][j].x
              /\ checked[w][i].y = checked[w][j].y
              /\ checked[w][i].color # checked[w][j].color
              /\ HoldsAtCell(recv_data[w], checked[w][j]) )
            => (~MismatchExit(w) /\ pc[w] = "sleep")

\* C4: when a snapshot with origin (X, Y), width and height is checked, the
\* worker ends by mismatch if and only if some acked entry inside the covered
\* region differs at offset ((x - X) + (y - Y)*width)*4; entries outside the
\* region are skipped.
C4_RegionRelativeCheck ==
    \A w \in Workers :
        JustChecked(w) =>
            ( MismatchExit(w)
              <=> \E i \in 1 .. Len(checked[w]) :
                     /\ checked[w][i].acked = "True"
                     /\ InRegion(recv_data[w], checked[w][i])
                     /\ TileSlice(recv_data[w],
                                  RegionOffset(recv_data[w], checked[w][i]))
                            # to_bytes(checked[w][i].color) )

\* C5: an entry whose acked flag is False when the snapshot arrives is never
\* compared: the worker ends on a snapshot exactly when an acked entry fails
\* the comparison of line 66, whatever the unacked entries hold.
C5_UnackedNeverCompared ==
    \A w \in Workers :
        JustChecked(w) =>
            /\ MismatchExit(w)
                 <=> \E i \in 1 .. Len(checked[w]) :
                        /\ checked[w][i].acked = "True"
                        /\ find_byte_sequence(recv_data[w],
                                              to_bytes(checked[w][i].color))
                              # Offset(checked[w][i])
            /\ pc[w] \in {"closing_mismatch", "done"} <=> MismatchExit(w)

\* C5 witness: a snapshot was checked against a list that holds an acked
\* entry and an unacked entry whose bytes at its offset differ from its
\* colour, and the worker carries on.
C5_Witness ==
    \E w \in Workers :
        /\ JustChecked(w)
        /\ pc[w] = "sleep"
        /\ \E i, j \in 1 .. Len(checked[w]) :
              /\ checked[w][i].acked = "True"
              /\ checked[w][j].acked = "False"
              /\ DiffersAtOffset(recv_data[w], checked[w][j])

\* C6: an acked flag turns True only in the text-response step of its own
\* worker and only on the last entry of the check list, and a text response
\* leaves the flag of every earlier entry as it was.
C6_AckOnlyLast ==
    [][ \A w \in Workers :
          /\ \A i \in 1 .. Len(check[w]) :
                ( /\ i <= Len(check'[w])
                  /\ Deref(w)[i].acked # "True"
                  /\ DerefNext(w)[i].acked = "True" )
                => (recv_str(w) /\ i = Len(check[w]))
          /\ recv_str(w) =>
                \A i \in 1 .. (Len(check[w]) - 1) :
                    DerefNext(w)[i].acked = Deref(w)[i].acked ]_vars

\* C7: once generated, the workload never changes.
C7_WorkloadReadOnly ==
    [][ main_pc # "start" => msg_dict' = msg_dict ]_vars

\* C8: a step of one worker leaves the check list of every other worker, by
\* value (content and acked flags), as it was.
C8_PendingSetOwned ==
    [][ \A v, w \in Workers :
          (v # w /\ worker(v)) => DerefNext(w) = Deref(w) ]_vars

\* C9: once main has started its workers, exactly NUM_WORKERS workers have
\* been started, and main ends only when all of them are done.
C9_StartsNumWorkers ==
    /\ main_pc \in {"running", "done"} =>
          Cardinality({ w \in Workers : pc[w] # "idle" }) = NUM_WORKERS
    /\ main_pc = "done" => \A w \in Workers : pc[w] = "done"

\* C10: no worker that connected ends with its connection still open.
C10_ClosedOnEveryExit ==
    \A w \in Workers :
        (pc[w] = "done" /\ connection[w] # "none") => connection[w] # "open"

\* C11: a binary response that cannot be decoded is skipped: the worker goes
\* on to the pacing delay with its connection open, its check list kept and
\* nothing raised.
C11_UndecodableSkipped ==
    \A w \in Workers :
        (recv_data[w].type = "bytes" /\ ~recv_data[w].ok) =>
            /\ pc[w] = "sleep"
            /\ connection[w] = "open"
            /\ retval[w] = "pending"
            /\ Len(check[w]) >= 1

\* the value of a key in a serialized request, as json.loads returns it
JsonField(text, key) == text[(CHOOSE k \in {1, 3, 5} : text[k] = key) + 1]

\* C12: every pair of the workload carries the same x, y and colour in its
\* serialized request and in its expectation, with 0 <= x < TILE_X and
\* 0 <= y < TILE_X.
C12_GeneratorConsistent ==
    \A i \in 1 .. Len(msg_dict) :
        LET p == msg_dict[i]
        IN  /\ JsonField(p.send, "x") = p.to_check.x
            /\ JsonField(p.send, "y") = p.to_check.y
            /\ JsonField(p.send, "color") = p.to_check.color
            /\ 0 <= p.to_check.x /\ p.to_check.x < TILE_X
            /\ 0 <= p.to_check.y /\ p.to_check.y < TILE_X

\* C12 witness: the generator has returned a full workload with a pair whose
\* x, y and colour are three different numbers.
C12_Witness ==
    /\ main_pc = "generated"
    /\ Len(msg_dict) = NumMsgs
    /\ \E i \in 1 .. Len(msg_dict) :
          /\ msg_dict[i].to_check.x # msg_dict[i].to_check.y
          /\ msg_dict[i].to_check.color \notin
                {msg_dict[i].to_check.x, msg_dict[i].to_check.y}

\* C13: the step that appends the pending check of a sent request adds one
\* entry with acked False and leaves every entry already in the list, acked
\* flag included, as it was.
C13_SendLeavesEntries ==
    [][ \A w \in Workers :
          (pc[w] = "sent" /\ pc'[w] = "recv") =>
              /\ Len(check'[w]) = Len(check[w]) + 1
              /\ DerefNext(w)[Len(check'[w])].acked = "False"
              /\ \A i \in 1 .. Len(check[w]) :
                    DerefNext(w)[i] = Deref(w)[i] ]_vars

\* C14: requests and responses alternate strictly: a worker never has more
\* than one request without its response, a request is outstanding from its
\* send to the receive that answers it, none is outstanding at the loop top
\* or during the pause, and a worker ends with a request unanswered only when
\* the transport failed on the receive.
C14_OneOutstanding ==
    \A w \in Workers :
        /\ outstanding[w] \in {0, 1}
        /\ pc[w] \in {"sent", "recv"} => outstanding[w] = 1
        /\ pc[w] \in {"loop", "sleep"} \cup Closing => outstanding[w] = 0
        /\ (pc[w] = "done" /\ outstanding[w] = 1) => connection[w] = "lost"

\* C14 witness: a second request is outstanding after the first one's
\* response was received.
C14_Witness ==
    \E w \in Workers :
        /\ outstanding[w] = 1
        /\ pc[w] = "recv"
        /\ Len(check[w]) >= 2

\* C15: the deadline is tested only at the top of the loop: the worker starts
\* its timeout close only from the loop top, with DURATION or more elapsed and
\* no request outstanding; at the loop top with the deadline passed the worker
\* does nothing else; an iteration begun before the deadline runs its send,
\* receive, check and pause whatever the clock says; and from the timeout
\* close the worker only returns, with its connection closed and no further
\* request sent.
C15_DeadlineAtLoopTop ==
    [][ \A w \in Workers :
          LET late == now - start[w] >= DURATION
          IN  /\ (pc'[w] = "closing_timeout" /\ pc[w] # "closing_timeout") =>
                    /\ pc[w] = "loop" /\ late
                    /\ outstanding[w] = 0
              /\ (pc[w] = "loop" /\ late /\ pc'[w] # pc[w]) =>
                    pc'[w] = "closing_timeout"
              /\ (pc[w] = "loop" /\ ~late /\ pc'[w] # pc[w]) =>
                    pc'[w] # "closing_timeout"
              /\ (pc[w] \in {"sent", "recv", "sleep"} /\ pc'[w] # pc[w]) =>
                    pc'[w] # "closing_timeout"
              /\ (pc[w] = "closing_timeout" /\ pc'[w] # pc[w]) =>
                    /\ pc'[w] = "done" /\ connection'[w] = "closed"
                    /\ ended'[w] = "timeout"
                    /\ check'[w] = check[w] /\ outstanding'[w] = 0
              /\ (ended'[w] = "timeout" /\ ended[w] # "timeout") =>
                    pc[w] = "closing_timeout" ]_vars

\* C15 witness: a response has been received and handled after the deadline
\* passed, and the worker is at its pause with the connection still open.
C15_Witness ==
    \E w \in Workers :
        /\ pc[w] = "sleep"
        /\ now - start[w] >= DURATION
        /\ recv_data[w].type \in {"str", "bytes"}
        /\ connection[w] = "open"

\* the acked entries of a checked list whose colour bytes are not first found
\* at their offset in the snapshot
BadEntries(tile, pending) ==
    { i \in 1 .. Len(pending) :
        /\ pending[i].acked = "True"
        /\ find_byte_sequence(tile, to_bytes(pending[i].color))
              # Offset(pending[i]) }

\* C16: a worker that took the mismatch exit stopped at the first acked entry
\* that fails the check: it compared the acked entries up to that one and
\* none after it, left its pending list as it was checked (not cleared) and
\* sends no further request; once the close has completed its connection is
\* closed and it has returned.
C16_FailFast ==
    \A w \in Workers :
        MismatchExit(w) =>
            LET bad == BadEntries(recv_data[w], checked[w])
                first == CHOOSE i \in bad : \A j \in bad : i <= j
            IN  /\ JustChecked(w)
                /\ bad # {}
                /\ compared[w] =
                      { i \in 1 .. first : checked[w][i].acked = "True" }
                /\ pc[w] \in {"closing_mismatch", "done"}
                /\ pc[w] = "done" =>
                      connection[w] = "closed" /\ retval[w] = "None"
                /\ check[w] # <<>>
                /\ Deref(w) = checked[w]
                /\ outstanding[w] = 0

\* C16 witness: a worker ended by mismatch on a snapshot that two acked
\* entries fail, and it compared the first of them only.
C16_Witness ==
    \E w \in Workers :
        /\ ended[w] = "mismatch"
        /\ Cardinality(BadEntries(recv_data[w], checked[w])) >= 2
        /\ Cardinality(compared[w]) = 1
        /\ Len(check[w]) = MaxAllCheck

\* C17: the pending list is emptied by a binary response that passes the
\* check and by nothing else: a text response or a response of another type
\* leaves the list as it is, after a passing binary response the list is
\* empty, and it stays as it is through the pause and the loop top up to the
\* next send.
C17_ClearedOnlyByPassingSnapshot ==
    [][ \A w \in Workers :
          /\ ( /\ pc[w] = "recv" /\ pc'[w] = "sleep"
               /\ recv_data'[w].type \in {"str", "other"} ) =>
                  check'[w] = check[w]
          /\ ( /\ pc[w] = "recv" /\ pc'[w] = "sleep"
               /\ recv_data'[w].type = "bytes" ) =>
                  check'[w] = <<>>
          /\ (pc[w] = "sleep" /\ pc'[w] = "loop") => check'[w] = check[w]
          /\ (pc[w] = "loop" /\ pc'[w] = "sent") => check'[w] = check[w]
          /\ Len(check'[w]) < Len(check[w]) =>
                /\ pc[w] = "recv" /\ pc'[w] = "sleep"
                /\ recv_data'[w].type = "bytes" /\ recv_data'[w].ok
                /\ ended'[w] = ""
                /\ check'[w] = <<>> ]_vars

\* C17 witness: a snapshot has passed the check of a list of two or more
\* entries, one of them acknowledged by an earlier text response, and the
\* list is empty at the pause.
C17_Witness ==
    \E w \in Workers :
        /\ pc[w] = "sleep"
        /\ JustChecked(w)
        /\ Len(checked[w]) >= 2
        /\ \E i \in 1 .. Len(checked[w]) : checked[w][i].acked = "True"
        /\ check[w] = <<>>

\* C18: the write whose own response is a snapshot is never verified: it is
\* the last entry of the checked list, still unacked, it is not among the
\* entries compared, and unless the worker ended by mismatch on an earlier
\* entry it is removed with the rest of the list.
C18_LastWriteUnverified ==
    \A w \in Workers :
        JustChecked(w) =>
            /\ Len(checked[w]) >= 1
            /\ checked[w][Len(checked[w])].acked = "False"
            /\ Len(checked[w]) \notin compared[w]
            /\ ~MismatchExit(w) => check[w] = <<>>

\* C18 witness: a snapshot that does not hold the last write's colour at its
\* offset has passed, and the list with that write has been cleared.
C18_Witness ==
    \E w \in Workers :
        /\ JustChecked(w)
        /\ pc[w] = "sleep"
        /\ check[w] = <<>>
        /\ Len(checked[w]) >= 2
        /\ Mismatch(recv_data[w], checked[w][Len(checked[w])])

\* C19: a worker whose transport did not fail leaves its loop only by timeout
\* or by mismatch, and then its connection is closed.
C19_LeavesLoopClosed ==
    \A w \in Workers :
        (pc[w] = "done" /\ connection[w] \notin {"none", "lost"}) =>
            /\ ended[w] \in {"timeout", "mismatch"}
            /\ connection[w] = "closed"

====
